---------------------------- MODULE Spec2Model ----------------------------
(***************************************************************************)
(* GridWorld dynamic programming (21_reinforcement_learning/               *)
(* 01_gridworld_dynamic_programming.ipynb): the model build loop, the      *)
(* hand-written Value Iteration loop, the policy extraction and the        *)
(* hand-written Policy Iteration loop, as the notebook runs them, cell     *)
(* after cell.                                                             *)
(*                                                                         *)
(* Number representation.  The notebook computes in float64.  Here         *)
(*   - a probability is an integer number of tenths (PUnit = 1.0),         *)
(*   - a reward or a value is an integer number of millionths (Unit = 1.0),*)
(*   - gamma is an integer number of hundredths (GUnit = 1.0),             *)
(* and a product is rounded to the nearest millionth where float64 rounds  *)
(* to the nearest representable double.                                    *)
(***************************************************************************)
EXTENDS Integers, Sequences, FiniteSets, TLC

VARIABLES
    blocked_cell,     \* the blocked cell (row, col)
    absorbing_cells,  \* dict: absorbing cell -> terminal reward
    transitions,      \* transitions[a][s][t], tenths
    rewards,          \* rewards[a][s][t], millionths
    build_idx,        \* position in product(actions_, actions_, states)
    V,                \* the value function, millionths
    V_,               \* the copy of V taken at the start of a sweep
    gamma,            \* discount factor, hundredths
    epsilon,          \* convergence threshold, millionths
    iterations,       \* sweeps counted
    converged,        \* loop flag
    sweep_idx,        \* position in: for state in states_to_update
    policy,           \* the extracted greedy policy
    pi,               \* the policy array of Policy Iteration
    pi_,              \* the copy of pi taken at the start of an iteration
    error,            \* "none", or the exception that stopped the notebook
    pc                \* the statement the notebook is at

vars == <<blocked_cell, absorbing_cells, transitions, rewards, build_idx,
          V, V_, gamma, epsilon, iterations, converged, sweep_idx, policy,
          pi, pi_, error, pc>>

config  == <<blocked_cell, absorbing_cells>>
tensors == <<transitions, rewards>>


-----------------------------------------------------------------------------
(* Units of the number representation *)
Unit  == 10^6
PUnit == 10
GUnit == 100

\* x / d rounded to the nearest integer (halves upwards)
Round(x, d) == (2 * x + d) \div (2 * d)

Abs(x) == IF x < 0 THEN -x ELSE x

\* np.sum over a vector indexed 0 .. n
RECURSIVE SumTo(_, _)
SumTo(f, n) == IF n < 0 THEN 0 ELSE f[n] + SumTo(f, n - 1)

-----------------------------------------------------------------------------
(* Environment parameters *)
grid_size == <<3, 4>>
rows == grid_size[1]
cols == grid_size[2]

baseline_reward == -((2 * Unit) \div 100)

actions == <<"L", "U", "R", "D">>
num_actions == Len(actions)
probs == <<1, 8, 1, 0>>

\* the 0-based index of an action and the action at a 0-based index
ActionAt(i) == actions[i + 1]
actions_ == 0 .. (num_actions - 1)

-----------------------------------------------------------------------------
(* Cells and states *)
num_states == rows * cols

\* list(np.ndindex(grid_size)): the cells in row-major order
cells == [i \in 1 .. num_states |-> <<(i - 1) \div cols, (i - 1) % cols>>]
CellSet == {cells[i] : i \in 1 .. Len(cells)}

states == 0 .. (Len(cells) - 1)

\* np.ravel_multi_index raises ValueError on a cell outside the grid
ValueError == -1
to_1d(x) ==
    IF x[1] \in 0 .. (rows - 1) /\ x[2] \in 0 .. (cols - 1)
    THEN x[1] * cols + x[2]
    ELSE ValueError

\* faulty variant: the index is unravelled column by column
to_2d_ColumnMajor(x) == <<x % rows, x \div rows>>

\* np.unravel_index(x, grid_size)
to_2d(x) == <<x \div cols, x % cols>>

\* dict(zip(cells, states)) and dict(zip(states, cells))
cell_state == [c \in CellSet |-> CHOOSE s \in states : cells[s + 1] = c]
state_cell == [s \in states |-> cells[s + 1]]

absorbing_states ==
    [s \in {to_1d(c) : c \in DOMAIN absorbing_cells} |->
        absorbing_cells[CHOOSE c \in DOMAIN absorbing_cells : to_1d(c) = s]]

blocked_state == to_1d(blocked_cell)

state_rewards ==
    [s \in states |->
        IF s \in DOMAIN absorbing_states THEN absorbing_states[s]
        ELSE IF s = blocked_state THEN 0
        ELSE baseline_reward]

\* faulty variant: the dict is keyed by actions[i % 4]
action_outcomes_Unshifted ==
    LET names == {actions[k] : k \in 1 .. num_actions}
    IN  [A \in names |->
            LET i == CHOOSE i \in actions_ : ActionAt(i % 4) = A
            IN  [O \in names |->
                    LET j == CHOOSE j \in i .. (num_actions + i - 1) :
                                 ActionAt(j % 4) = O
                    IN  probs[j - i + 1]]]

\* action_outcomes[A][O]: probability that intended action A is realised as O
action_outcomes ==
    LET names == {actions[k] : k \in 1 .. num_actions}
    IN  [A \in names |->
            LET i == CHOOSE i \in actions_ : ActionAt((i + 1) % 4) = A
            IN  [O \in names |->
                    LET j == CHOOSE j \in i .. (num_actions + i - 1) :
                                 ActionAt(j % 4) = O
                    IN  probs[j - i + 1]]]

-----------------------------------------------------------------------------
(* Transition matrix *)
get_new_cell(state, move) ==
    LET cell == to_2d(state)
    IN  IF ActionAt(move) = "U" THEN <<cell[1] - 1, cell[2]>>
        ELSE IF ActionAt(move) = "D" THEN <<cell[1] + 1, cell[2]>>
        ELSE IF ActionAt(move) = "R" THEN <<cell[1], cell[2] + 1>>
        ELSE <<cell[1], cell[2] - 1>>

\* state in absorbing_states.keys() or state == blocked_state
IsFixedState(state) ==
    state \in DOMAIN absorbing_states \/ state = blocked_state

\* faulty variant: the blocked-cell test is missing
Bounces_NoBlockedTest(new_cell) == new_cell \notin CellSet

\* faulty variant: the grid-edge test is missing
Bounces_NoEdgeTest(new_cell) == new_cell = blocked_cell

\* new_cell not in cells or new_cell == blocked_cell
Bounces(new_cell) == new_cell \notin CellSet \/ new_cell = blocked_cell

\* The three branches of update_transitions_and_rewards follow; each yields
\* the tensors after the branch and the exception it raised, if any.

\* faulty variant: the self-transition counts the outcomes processed
FixedBranch_Counts(T, R, state, action) ==
    [transitions |-> [T EXCEPT ![action][state][state] = @ + PUnit],
     rewards     |-> R,
     error       |-> "none"]

\* faulty variant: the state's own reward is written into its row
FixedBranch_BakesReward(T, R, state, action) ==
    [transitions |-> [T EXCEPT ![action][state][state] = PUnit],
     rewards     |-> [R EXCEPT ![action][state][state] = state_rewards[state]],
     error       |-> "none"]

FixedBranch(T, R, state, action) ==
    [transitions |-> [T EXCEPT ![action][state][state] = PUnit],
     rewards     |-> R,
     error       |-> "none"]

\* faulty variant: only the first bounce of a row is recorded
BounceBranch_KeepsFirst(T, R, state, action, p) ==
    [transitions |-> [T EXCEPT ![action][state][state] =
                                   IF @ = 0 THEN p ELSE @],
     rewards     |-> [R EXCEPT ![action][state][state] = baseline_reward],
     error       |-> "none"]

\* faulty variant: a later bounce overwrites an earlier one
BounceBranch_Overwrites(T, R, state, action, p) ==
    [transitions |-> [T EXCEPT ![action][state][state] = p],
     rewards     |-> [R EXCEPT ![action][state][state] = baseline_reward],
     error       |-> "none"]

BounceBranch(T, R, state, action, p) ==
    [transitions |-> [T EXCEPT ![action][state][state] = @ + p],
     rewards     |-> [R EXCEPT ![action][state][state] = baseline_reward],
     error       |-> "none"]

\* faulty variant: the reward is that of the source state
MoveBranch_SourceReward(T, R, state, action, new_cell, p) ==
    LET new_state == to_1d(new_cell)
    IN  IF new_state = ValueError
        THEN [transitions |-> T, rewards |-> R, error |-> "ValueError"]
        ELSE [transitions |-> [T EXCEPT ![action][state][new_state] = p],
              rewards     |-> [R EXCEPT ![action][state][new_state] =
                                            state_rewards[state]],
              error       |-> "none"]

MoveBranch(T, R, state, action, new_cell, p) ==
    LET new_state == to_1d(new_cell)
    IN  IF new_state = ValueError
        THEN [transitions |-> T, rewards |-> R, error |-> "ValueError"]
        ELSE [transitions |-> [T EXCEPT ![action][state][new_state] = p],
              rewards     |-> [R EXCEPT ![action][state][new_state] =
                                            state_rewards[new_state]],
              error       |-> "none"]

update_transitions_and_rewards(T, R, state, action, outcome) ==
    IF IsFixedState(state)
    THEN FixedBranch(T, R, state, action)
    ELSE LET new_cell == get_new_cell(state, outcome)
             p == action_outcomes[ActionAt(action)][ActionAt(outcome)]
         IN  IF Bounces(new_cell)
             THEN BounceBranch(T, R, state, action, p)
             ELSE MoveBranch(T, R, state, action, new_cell, p)

\* np.zeros((num_actions, num_states, num_states))
Zeros == [a \in actions_ |-> [s \in states |-> [t \in states |-> 0]]]

\* product(actions_, actions_, states): the triple at position i
BuildLen == num_actions * num_actions * num_states
BuildAction(i)  == i \div (num_actions * num_states)
BuildOutcome(i) == (i \div num_states) % num_actions
BuildState(i)   == i % num_states

-----------------------------------------------------------------------------
(* Value Iteration *)

\* skip_states, as a set, and states_to_update, in ascending order
skip_states == DOMAIN absorbing_states \cup {blocked_state}

\* faulty variant: the states are visited from the highest index down
states_to_update_Descending ==
    SelectSeq([i \in 1 .. num_states |-> num_states - i],
              LAMBDA s : s \notin skip_states)

states_to_update ==
    SelectSeq([i \in 1 .. num_states |-> i - 1],
              LAMBDA s : s \notin skip_states)

\* the initial value functions considered: np.random.rand draws from [0, 1);
\* here every grid row takes one of InitLevels evenly spaced levels
InitLevels == 2
InitValues ==
    {(i * (Unit - 1)) \div (InitLevels - 1) : i \in 0 .. (InitLevels - 1)}

\* faulty variant: the skipped states keep their random draw
InitialV_NoZero(draw) == [s \in states |-> draw[to_2d(s)[1]]]

\* V = np.random.rand(num_states); V[skip_states] = 0
InitialV(draw) ==
    [s \in states |-> IF s \in skip_states THEN 0 ELSE draw[to_2d(s)[1]]]

InitialVs == {InitialV(draw) : draw \in [0 .. (rows - 1) -> InitValues]}

\* the discount factors and thresholds considered (.99 and 1e-5 are the
\* notebook's)
GammaValues   == {50, 99}
EpsilonValues == {10, 1000}

\* the sweeps the loop may perform in the model
MaxIter == 60

\* faulty variant: the reward term is missing from the backup
q_sa_NoReward(T, R, state, Vv, g) ==
    [a \in actions_ |->
        Round(SumTo([t \in states |->
                        T[a][state][t] * Round(g * Vv[t], GUnit)],
                    num_states - 1),
              PUnit)]

\* faulty variant: the discount is missing
q_sa_Undiscounted(T, R, state, Vv, g) ==
    [a \in actions_ |->
        Round(SumTo([t \in states |->
                        T[a][state][t] * (R[a][state][t] + Vv[t])],
                    num_states - 1),
              PUnit)]

\* np.sum(transitions[:, state] * (rewards[:, state] + gamma * V), axis=1)
q_sa(T, R, state, Vv, g) ==
    [a \in actions_ |->
        Round(SumTo([t \in states |->
                        T[a][state][t]
                            * (R[a][state][t] + Round(g * Vv[t], GUnit))],
                    num_states - 1),
              PUnit)]

\* np.max over a vector indexed 0 .. n
RECURSIVE np_max(_, _)
np_max(f, n) ==
    IF n = 0 THEN f[0]
    ELSE LET m == np_max(f, n - 1) IN IF f[n] > m THEN f[n] ELSE m

\* faulty variant: the last index of the maximum
RECURSIVE np_argmax_Last(_, _)
np_argmax_Last(f, n) ==
    IF n = 0 THEN 0
    ELSE LET i == np_argmax_Last(f, n - 1) IN IF f[n] >= f[i] THEN n ELSE i

\* np.argmax over a vector indexed 0 .. n: the first index of the maximum
RECURSIVE np_argmax(_, _)
np_argmax(f, n) ==
    IF n = 0 THEN 0
    ELSE LET i == np_argmax(f, n - 1) IN IF f[n] > f[i] THEN n ELSE i

\* q_sa = ...; V[state] = np.max(q_sa)
Backup(T, R, state, Vv, g) ==
    CHOOSE W \in {[Vv EXCEPT ![state] = np_max(q, num_actions - 1)] :
                     q \in {q_sa(T, R, state, Vv, g)}} : TRUE

\* faulty variant: np.fabs is missing
L1Change_Signed(Vv, Vold) ==
    SumTo([s \in states |-> Vv[s] - Vold[s]], num_states - 1)

\* np.sum(np.fabs(V - V_))
L1Change(Vv, Vold) ==
    SumTo([s \in states |-> Abs(Vv[s] - Vold[s])], num_states - 1)

\* faulty variant: V_ is V itself (no np.copy), so the change is always 0
ConvergenceTest_Aliased(Vv, Vold, eps) == L1Change(Vv, Vv) < eps

\* faulty variant: a change equal to epsilon passes the test
ConvergenceTest_NonStrict(Vv, Vold, eps) == L1Change(Vv, Vold) <= eps

\* faulty variant: the largest change instead of the summed change
ConvergenceTest_MaxNorm(Vv, Vold, eps) ==
    \A s \in states : Abs(Vv[s] - Vold[s]) < eps

\* np.sum(np.fabs(V - V_)) < epsilon
ConvergenceTest(Vv, Vold, eps) == L1Change(Vv, Vold) < eps

\* the for loop over states_to_update from position k on
RECURSIVE Sweep(_, _, _, _, _)
Sweep(T, R, Vv, g, k) ==
    IF k > Len(states_to_update) THEN Vv
    ELSE CHOOSE W \in
            {Sweep(T, R, B, g, k + 1) :
                B \in {Backup(T, R, states_to_update[k], Vv, g)}} : TRUE

\* the while loop run to its exit from Vv, at most n sweeps, it sweeps
\* counted so far: V, V_ and iterations at the exit
RECURSIVE ValueIterationRun(_, _, _, _, _, _, _)
ValueIterationRun(T, R, Vv, g, eps, n, it) ==
    CHOOSE run \in
        {IF n <= 1 \/ ConvergenceTest(W, Vv, eps)
         THEN [V |-> W, V_ |-> Vv, iterations |-> it + 1]
         ELSE ValueIterationRun(T, R, W, g, eps, n - 1, it + 1) :
            W \in {Sweep(T, R, Vv, g, 1)}} : TRUE

ValueIteration(T, R, Vv, g, eps, n) ==
    ValueIterationRun(T, R, Vv, g, eps, n, 0).V

\* faulty variant: the absorbing states keep the value 0
WithTerminalRewards_Skipped(Vv) == Vv

\* for state, reward in absorbing_states.items(): V[state] = reward
WithTerminalRewards(Vv) ==
    [s \in states |->
        IF s \in DOMAIN absorbing_states THEN absorbing_states[s] ELSE Vv[s]]

\* np.argmax(np.sum(transitions * V, 2), 0)
GreedyPolicy(T, Vv) ==
    CHOOSE P \in {[s \in states |-> np_argmax(q[s], num_actions - 1)] :
                     q \in {[s \in states |-> [a \in actions_ |->
                               SumTo([t \in states |-> T[a][s][t] * Vv[t]],
                                     num_states - 1)]]}} : TRUE

-----------------------------------------------------------------------------
(* The toolbox solver the notebook compares against:                       *)
(* vi = mdp.ValueIteration(transitions, reward, discount, epsilon);        *)
(* vi.run().  A synchronous Value Iteration from V = 0 that backs up every *)
(* state and stops when the span of the change falls below                 *)
(* epsilon * (1 - discount) / discount.                                    *)

\* the expected immediate reward of each (action, state)
toolbox_PR(T, R) ==
    [a \in actions_ |-> [s \in states |->
        Round(SumTo([t \in states |-> T[a][s][t] * R[a][s][t]],
                    num_states - 1),
              PUnit)]]

\* Q.max(axis=0) of Q[a] = PR[a] + discount * P[a].dot(V): the entries
\* s .. num_states - 1 of the new vector W, all computed from the old Vv
RECURSIVE toolbox_backupFrom(_, _, _, _, _, _)
toolbox_backupFrom(T, PR, Vv, W, g, s) ==
    IF s = num_states THEN W
    ELSE toolbox_backupFrom(T, PR, Vv,
            [W EXCEPT ![s] =
                np_max([a \in actions_ |->
                           PR[a][s]
                             + Round(g * Round(SumTo([t \in states |->
                                                         T[a][s][t] * Vv[t]],
                                                     num_states - 1),
                                               PUnit),
                                     GUnit)],
                       num_actions - 1)],
            g, s + 1)

\* one synchronous backup of all states
toolbox_bellmanOperator(T, PR, Vv, g) ==
    toolbox_backupFrom(T, PR, Vv, Vv, g, 0)

\* max - min of a vector over the states
toolbox_getSpan(W) ==
    LET hi == CHOOSE x \in {W[s] : s \in states} : \A s \in states : W[s] <= x
        lo == CHOOSE x \in {W[s] : s \in states} : \A s \in states : x <= W[s]
    IN  hi - lo

\* run(): at most n backups from Vv
RECURSIVE toolbox_run(_, _, _, _, _, _)
toolbox_run(T, PR, Vv, g, eps, n) ==
    CHOOSE out \in
        {IF n <= 1
            \/ toolbox_getSpan([s \in states |-> W[s] - Vv[s]]) * g
                  < eps * (GUnit - g)
         THEN W
         ELSE toolbox_run(T, PR, W, g, eps, n - 1) :
            W \in {toolbox_bellmanOperator(T, PR, Vv, g)}} : TRUE

\* vi.V after vi.run()
toolbox_V(T, R, g, eps) ==
    CHOOSE out \in
        {toolbox_run(T, PR, [s \in states |-> 0], g, eps, MaxIter) :
            PR \in {toolbox_PR(T, R)}} : TRUE

\* np.allclose(a, b): |a - b| <= atol + rtol * |b| at every entry, with
\* atol = 1e-8 and rtol = 1e-5
np_allclose(a, b) ==
    \A s \in states :
        Abs(a[s] - b[s]) <= ((Unit \div 1000) + Abs(b[s])) \div 100000

-----------------------------------------------------------------------------
(* Policy Iteration *)

\* def policy_improvement(value, transitions); value is the caller's copy
policy_improvement(value, T) == GreedyPolicy(T, WithTerminalRewards(value))

\* faulty variant: the product is computed in place (transitions *= V)
AfterProduct_InPlace(T, Vv) ==
    [a \in actions_ |-> [s \in states |-> [t \in states |->
        Round(T[a][s][t] * Vv[t], Unit)]]]

\* the tensor once np.sum(transitions * V, 2) has been computed: the product
\* is a new array, transitions keeps its entries
AfterProduct(T, Vv) == T

\* faulty variant: V itself is passed, so the callee's writes land in V
AfterImprovement_Aliased(Vv) == WithTerminalRewards(Vv)

\* the caller's V once policy_improvement(V.copy(), transitions) has
\* returned: the callee has written the terminal rewards into the copy
AfterImprovement(Vv) == Vv

\* V[state] = np.dot(transitions[action, state],
\*                   rewards[action, state] + gamma * V)
Evaluate(T, R, state, action, Vv, g) ==
    [Vv EXCEPT ![state] =
        Round(SumTo([t \in states |->
                        T[action][state][t]
                            * (R[action][state][t] + Round(g * Vv[t], GUnit))],
                    num_states - 1),
              PUnit)]

\* faulty variant: the improvement is called before the evaluation
PIStep_ImprovesFirst(T, R, state, action, Vv, g) ==
    [V  |-> Evaluate(T, R, state, action, Vv, g),
     pi |-> policy_improvement(Vv, T)]

\* the body of the for loop for one state, evaluated with action: V and pi
\* after V[state] = np.dot(...); pi = policy_improvement(V.copy(), ...)
PIStep(T, R, state, action, Vv, g) ==
    CHOOSE step \in
        {[V  |-> AfterImprovement(W), pi |-> policy_improvement(W, T)] :
            W \in {Evaluate(T, R, state, action, Vv, g)}} : TRUE

\* faulty variant: one equal entry is enough
array_equal_Any(x, y) == \E s \in states : x[s] = y[s]

\* faulty variant: the arrays are compared by identity, and pi_ is a copy
array_equal_Identity(x, y) == FALSE

\* np.array_equal: same shape, all entries equal
array_equal(x, y) == DOMAIN x = DOMAIN y /\ \A s \in DOMAIN x : x[s] = y[s]

\* the iterations of the Policy Iteration loop the model follows
MaxPIIter == 8

\* pi = np.random.choice(list(range(num_actions)), size=num_states): the
\* initial policy arrays considered give every state the same action
InitialPis == {[s \in states |-> a] : a \in actions_}

\* one pass of the for loop of the Policy Iteration loop from position k on,
\* with the global array policy holding leftover: V and pi after the pass
RECURSIVE PISweep(_, _, _, _, _, _, _)
PISweep(T, R, Vv, p, g, leftover, k) ==
    IF k > Len(states_to_update) THEN [V |-> Vv, pi |-> p]
    ELSE CHOOSE out \in
            {PISweep(T, R, step.V, step.pi, g, leftover, k + 1) :
                step \in {PIStep(T, R, states_to_update[k],
                                 leftover[states_to_update[k]], Vv, g)}} : TRUE

\* the while loop of Policy Iteration run to its exit from Vv and p, at most
\* n iterations, it iterations counted so far
RECURSIVE PolicyIterationRun(_, _, _, _, _, _, _, _)
PolicyIterationRun(T, R, Vv, p, g, leftover, n, it) ==
    CHOOSE run \in
        {IF n <= 1 \/ array_equal(p, sw.pi)
         THEN [V |-> sw.V, pi |-> sw.pi, iterations |-> it + 1]
         ELSE PolicyIterationRun(T, R, sw.V, sw.pi, g, leftover, n - 1,
                                 it + 1) :
            sw \in {PISweep(T, R, Vv, p, g, leftover, 1)}} : TRUE

-----------------------------------------------------------------------------
\* The names the later cells assign hold a zero of their type until then; no
\* statement reads one of them before the notebook has assigned it.
Unassigned == [s \in states |-> 0]

Init ==
    /\ blocked_cell = <<1, 1>>
    /\ absorbing_cells = (<<0, 3>> :> Unit) @@ (<<1, 3>> :> -Unit)
    /\ transitions = Zeros
    /\ rewards = Zeros
    /\ build_idx = 0
    /\ V = Unassigned
    /\ V_ = Unassigned
    /\ gamma = 0
    /\ epsilon = 0
    /\ iterations = 0
    /\ converged = FALSE
    /\ sweep_idx = 0
    /\ policy = Unassigned
    /\ pi = Unassigned
    /\ pi_ = Unassigned
    /\ error = "none"
    /\ pc = "build"

\* one pass of: for action, outcome, state in product(...)
BuildStep ==
    /\ pc = "build"
    /\ \E r \in {update_transitions_and_rewards(
                     transitions, rewards, BuildState(build_idx),
                     BuildAction(build_idx), BuildOutcome(build_idx))} :
           /\ transitions' = r.transitions
           /\ rewards' = r.rewards
           /\ error' = r.error
           /\ build_idx' = build_idx + 1
           /\ pc' = IF r.error # "none" THEN "error"
                    ELSE IF build_idx + 1 = BuildLen THEN "vi_init"
                    ELSE "build"
    /\ UNCHANGED <<config, V, V_, gamma, epsilon, iterations, converged,
                   sweep_idx, policy, pi, pi_>>

\* V = np.random.rand(num_states); V[skip_states] = 0; gamma; epsilon
VIInit ==
    /\ pc = "vi_init"
    /\ V' \in InitialVs
    /\ gamma' \in GammaValues
    /\ epsilon' \in EpsilonValues
    /\ pc' = "vi_start"
    /\ UNCHANGED <<config, tensors, build_idx, V_, iterations, converged,
                   sweep_idx, policy, error, pi, pi_>>

\* iterations = 0; converged = False
VIStart ==
    /\ pc = "vi_start"
    /\ iterations' = 0
    /\ converged' = FALSE
    /\ pc' = "vi_loop"
    /\ UNCHANGED <<config, tensors, build_idx, V, V_, gamma, epsilon,
                   sweep_idx, policy, error, pi, pi_>>

\* while not converged: V_ = np.copy(V)
VILoop ==
    /\ pc = "vi_loop"
    /\ IF converged
       THEN /\ pc' = "overwrite"
            /\ UNCHANGED <<V_, sweep_idx>>
       ELSE /\ iterations < MaxIter
            /\ V_' = V
            /\ sweep_idx' = 1
            /\ pc' = "vi_sweep"
    /\ UNCHANGED <<config, tensors, build_idx, V, gamma, epsilon, iterations,
                   converged, policy, error, pi, pi_>>

\* one pass of: for state in states_to_update
VIBackup ==
    /\ pc = "vi_sweep"
    /\ \E state \in {states_to_update[sweep_idx]} :
           V' = Backup(transitions, rewards, state, V, gamma)
    /\ sweep_idx' = sweep_idx + 1
    /\ pc' = IF sweep_idx = Len(states_to_update) THEN "vi_test" ELSE "vi_sweep"
    /\ UNCHANGED <<config, tensors, build_idx, V_, gamma, epsilon, iterations,
                   converged, policy, error, pi, pi_>>

\* if np.sum(np.fabs(V - V_)) < epsilon: converged = True; iterations += 1
VITest ==
    /\ pc = "vi_test"
    /\ converged' = IF ConvergenceTest(V, V_, epsilon) THEN TRUE ELSE converged
    /\ iterations' = iterations + 1
    /\ pc' = "vi_loop"
    /\ UNCHANGED <<config, tensors, build_idx, V, V_, gamma, epsilon,
                   sweep_idx, policy, error, pi, pi_>>

\* for state, reward in absorbing_states.items(): V[state] = reward
Overwrite ==
    /\ pc = "overwrite"
    /\ V' = WithTerminalRewards(V)
    /\ pc' = "policy"
    /\ UNCHANGED <<config, tensors, build_idx, V_, gamma, epsilon, iterations,
                   converged, sweep_idx, policy, error, pi, pi_>>

\* policy = np.argmax(np.sum(transitions * V, 2), 0)
Extract ==
    /\ pc = "policy"
    /\ policy' = GreedyPolicy(transitions, V)
    /\ transitions' = AfterProduct(transitions, V)
    /\ pc' = "pi_init"
    /\ UNCHANGED <<config, rewards, build_idx, V, V_, gamma, epsilon,
                   iterations, converged, sweep_idx, error, pi, pi_>>

\* V = np.random.rand(num_states); V[skip_states] = 0; pi = np.random.choice
PIInit ==
    /\ pc = "pi_init"
    /\ V' \in InitialVs
    /\ pi' \in InitialPis
    /\ pc' = "pi_start"
    /\ UNCHANGED <<config, tensors, build_idx, V_, gamma, epsilon, iterations,
                   converged, sweep_idx, policy, pi_, error>>

\* iterations = 0; converged = False
PIStart ==
    /\ pc = "pi_start"
    /\ iterations' = 0
    /\ converged' = FALSE
    /\ pc' = "pi_loop"
    /\ UNCHANGED <<config, tensors, build_idx, V, V_, gamma, epsilon,
                   sweep_idx, policy, pi, pi_, error>>

\* while not converged: pi_ = np.copy(pi)
PILoop ==
    /\ pc = "pi_loop"
    /\ IF converged
       THEN /\ pc' = "pi_end"
            /\ UNCHANGED <<pi_, sweep_idx>>
       ELSE /\ iterations < MaxPIIter
            /\ pi_' = pi
            /\ sweep_idx' = 1
            /\ pc' = "pi_sweep"
    /\ UNCHANGED <<config, tensors, build_idx, V, V_, gamma, epsilon,
                   iterations, converged, policy, pi, error>>

\* one pass of: for state in states_to_update
PIEval ==
    /\ pc = "pi_sweep"
    /\ \E state \in {states_to_update[sweep_idx]} :
       \E step \in {PIStep(transitions, rewards, state, policy[state], V,
                           gamma)} :
           /\ V' = step.V
           /\ pi' = step.pi
           /\ transitions' =
                  AfterProduct(transitions, WithTerminalRewards(step.V))
    /\ sweep_idx' = sweep_idx + 1
    /\ pc' = IF sweep_idx = Len(states_to_update) THEN "pi_test" ELSE "pi_sweep"
    /\ UNCHANGED <<config, rewards, build_idx, V_, gamma, epsilon, iterations,
                   converged, policy, pi_, error>>

\* if np.array_equal(pi_, pi): converged = True; iterations += 1
PITest ==
    /\ pc = "pi_test"
    /\ converged' = IF array_equal(pi_, pi) THEN TRUE ELSE converged
    /\ iterations' = iterations + 1
    /\ pc' = "pi_loop"
    /\ UNCHANGED <<config, tensors, build_idx, V, V_, gamma, epsilon,
                   sweep_idx, policy, pi, pi_, error>>

\* The notebook from its first cell to the extracted policy.
Next ==
    \/ BuildStep
    \/ VIInit
    \/ VIStart
    \/ VILoop
    \/ VIBackup
    \/ VITest
    \/ Overwrite
    \/ Extract

Spec == Init /\ [][Next]_vars

\* the build loop's steps i .. i + n - 1 applied to the tensors T, R; an
\* exception ends the loop
RECURSIVE BuildRun(_, _, _, _)
BuildRun(T, R, i, n) ==
    CHOOSE b \in
        {IF r.error # "none" \/ n = 1 THEN r
         ELSE BuildRun(r.transitions, r.rewards, i + 1, n - 1) :
            r \in {update_transitions_and_rewards(
                      T, R, BuildState(i), BuildAction(i),
                      BuildOutcome(i))}} : TRUE

\* the tensors the build loop leaves, from position i on: one (action,
\* outcome) pair of the product, all its states, after the other
RECURSIVE BuildFrom(_, _, _)
BuildFrom(T, R, i) ==
    CHOOSE b \in
        {IF r.error # "none" \/ i + num_states = BuildLen THEN r
         ELSE BuildFrom(r.transitions, r.rewards, i + num_states) :
            r \in {BuildRun(T, R, i, num_states)}} : TRUE

\* The notebook from the exit of the Value Iteration loop on: the state the
\* cells above leave when V starts at 0 and epsilon is the notebook's.
InitPI ==
    /\ pc = "overwrite"
    /\ blocked_cell = <<1, 1>>
    /\ absorbing_cells = (<<0, 3>> :> Unit) @@ (<<1, 3>> :> -Unit)
    /\ \E b \in {BuildFrom(Zeros, Zeros, 0)} :
           /\ b.error = "none"
           /\ transitions = b.transitions
           /\ rewards = b.rewards
    /\ build_idx = BuildLen
    /\ gamma \in GammaValues
    /\ epsilon = 10
    /\ \E run \in {ValueIterationRun(transitions, rewards, Unassigned, gamma,
                                     epsilon, MaxIter, 0)} :
           /\ V = run.V
           /\ V_ = run.V_
           /\ iterations = run.iterations
    /\ converged = TRUE
    /\ sweep_idx = Len(states_to_update) + 1
    /\ policy = Unassigned
    /\ pi = Unassigned
    /\ pi_ = Unassigned
    /\ error = "none"

NextPI ==
    \/ Overwrite
    \/ Extract
    \/ PIInit
    \/ PIStart
    \/ PILoop
    \/ PIEval
    \/ PITest

SpecPI == InitPI /\ [][NextPI]_vars

\* The build under other environment parameters: the blocked cell is any
\* cell of the grid, the absorbing cells included.
InitConfigured ==
    /\ blocked_cell \in CellSet
    /\ absorbing_cells = (<<0, 3>> :> Unit) @@ (<<1, 3>> :> -Unit)
    /\ transitions = Zeros
    /\ rewards = Zeros
    /\ build_idx = 0
    /\ V = Unassigned
    /\ V_ = Unassigned
    /\ gamma = 0
    /\ epsilon = 0
    /\ iterations = 0
    /\ converged = FALSE
    /\ sweep_idx = 0
    /\ policy = Unassigned
    /\ pi = Unassigned
    /\ pi_ = Unassigned
    /\ error = "none"
    /\ pc = "build"

NextConfigured == BuildStep

SpecConfigured == InitConfigured /\ [][NextConfigured]_vars

\* The two solvers one after the other, from the cell that starts the Value
\* Iteration loop on: the build is complete, V has been drawn as 0 everywhere
\* and epsilon is the notebook's.
InitSolvers ==
    /\ pc = "vi_start"
    /\ blocked_cell = <<1, 1>>
    /\ absorbing_cells = (<<0, 3>> :> Unit) @@ (<<1, 3>> :> -Unit)
    /\ \E b \in {BuildFrom(Zeros, Zeros, 0)} :
           /\ b.error = "none"
           /\ transitions = b.transitions
           /\ rewards = b.rewards
    /\ build_idx = BuildLen
    /\ gamma \in GammaValues
    /\ epsilon = 10
    /\ V = Unassigned
    /\ V_ = Unassigned
    /\ iterations = 0
    /\ converged = FALSE
    /\ sweep_idx = 0
    /\ policy = Unassigned
    /\ pi = Unassigned
    /\ pi_ = Unassigned
    /\ error = "none"

NextSolvers ==
    \/ VIStart
    \/ VILoop
    \/ VIBackup
    \/ VITest
    \/ NextPI

SpecSolvers == InitSolvers /\ [][NextSolvers]_vars

\* The Value Iteration loop under parameters the notebook does not validate:
\* gamma up to 1 and epsilon down to 0 and below, from an initial V with the
\* same draw in every grid row.
UnvalidatedGammas   == GammaValues \cup {GUnit}
UnvalidatedEpsilons == {-10, 0, 1000}

InitUnvalidated ==
    /\ pc = "vi_start"
    /\ blocked_cell = <<1, 1>>
    /\ absorbing_cells = (<<0, 3>> :> Unit) @@ (<<1, 3>> :> -Unit)
    /\ \E b \in {BuildFrom(Zeros, Zeros, 0)} :
           /\ b.error = "none"
           /\ transitions = b.transitions
           /\ rewards = b.rewards
    /\ build_idx = BuildLen
    /\ gamma \in UnvalidatedGammas
    /\ epsilon \in UnvalidatedEpsilons
    /\ V \in {InitialV([r \in 0 .. (rows - 1) |-> v]) : v \in InitValues}
    /\ V_ = Unassigned
    /\ iterations = 0
    /\ converged = FALSE
    /\ sweep_idx = 0
    /\ policy = Unassigned
    /\ pi = Unassigned
    /\ pi_ = Unassigned
    /\ error = "none"

NextUnvalidated ==
    \/ VIStart
    \/ VILoop
    \/ VIBackup
    \/ VITest
    \/ Overwrite

SpecUnvalidated == InitUnvalidated /\ [][NextUnvalidated]_vars

-----------------------------------------------------------------------------
(* Properties of the model build *)

BuildDone == pc \notin {"build", "error"}

\* C1: once the build loop has completed, every row transitions[a, s, :]
\* (all 12 source states, blocked and absorbing ones included) has
\* nonnegative entries that sum to exactly 1.
C1_RowsAreDistributions ==
    BuildDone =>
        \A a \in actions_, s \in states :
            /\ \A t \in states : transitions[a][s][t] >= 0
            /\ SumTo(transitions[a][s], num_states - 1) = PUnit

\* the build is complete, with a row that spreads its mass over a
\* self-loop fed by two bounces and a move, and a row of a fixed state
C1_Witness ==
    /\ BuildDone
    /\ \E a \in actions_, s \in states, t \in states :
          /\ ~IsFixedState(s) /\ t # s
          /\ transitions[a][s][s] = 9 /\ transitions[a][s][t] = 1
    /\ \E a \in actions_ : transitions[a][blocked_state][blocked_state] > 0

\* C2: after the build, the blocked state and every absorbing state have
\* self-transition probability exactly 1 under every action and probability
\* 0 to every other state.
C2_FixedStatesSelfLoop ==
    BuildDone =>
        \A a \in actions_, s \in states :
            IsFixedState(s) =>
                \A t \in states :
                    transitions[a][s][t] = IF t = s THEN PUnit ELSE 0

\* the build is complete and the fixed-state branch has written the rows of
\* the blocked state and of both absorbing states
C2_Witness ==
    /\ BuildDone
    /\ Cardinality({s \in states : IsFixedState(s)}) = 3
    /\ \A s \in states :
          IsFixedState(s) => transitions[num_actions - 1][s][s] = PUnit

\* C3: a build step for a non-blocked, non-absorbing source state whose
\* realised outcome points outside the grid adds the outcome's probability
\* to transitions[a, s, s], sets rewards[a, s, s] to the baseline reward,
\* writes no other tensor entry and raises no index error.
C3_OffGridSelfLoop ==
    [][ LET s == BuildState(build_idx)
            a == BuildAction(build_idx)
            o == BuildOutcome(build_idx)
            p == action_outcomes[ActionAt(a)][ActionAt(o)]
        IN  (pc = "build" /\ ~IsFixedState(s)
                /\ get_new_cell(s, o) \notin CellSet)
            => /\ error' = "none"
               /\ transitions' =
                      [transitions EXCEPT ![a][s][s] = transitions[a][s][s] + p]
               /\ rewards' = [rewards EXCEPT ![a][s][s] = baseline_reward]
               /\ \A b \in actions_, u \in states :
                      DOMAIN transitions'[b][u] = states
      ]_vars

\* the step just taken processed an off-grid outcome of positive
\* probability for a non-fixed state
C3_Witness ==
    /\ pc = "build" /\ build_idx > 0 /\ error = "none"
    /\ LET s == BuildState(build_idx - 1)
           a == BuildAction(build_idx - 1)
           o == BuildOutcome(build_idx - 1)
       IN  /\ ~IsFixedState(s)
           /\ get_new_cell(s, o) \notin CellSet
           /\ action_outcomes[ActionAt(a)][ActionAt(o)] > 0
           /\ transitions[a][s][s] > 0
           /\ rewards[a][s][s] = baseline_reward

\* C4: after the build, every positive-probability transition out of a
\* non-blocked, non-absorbing state carries the terminal reward of its
\* destination when the destination is absorbing and the baseline reward
\* otherwise (self-loops from bounces included).
C4_RewardOfDestination ==
    BuildDone =>
        \E terminal \in {absorbing_states} :
        \A s \in {x \in states : ~IsFixedState(x)} :
        \A a \in actions_, t \in states :
            transitions[a][s][t] > 0 =>
                rewards[a][s][t] =
                    IF t \in DOMAIN terminal THEN terminal[t]
                    ELSE baseline_reward

\* the build is complete with a positive-probability transition into each
\* absorbing state and a positive-probability bounce self-loop
C4_Witness ==
    /\ BuildDone
    /\ \A t \in DOMAIN absorbing_states :
          \E a \in actions_, s \in states :
              /\ ~IsFixedState(s) /\ transitions[a][s][t] > 0
              /\ rewards[a][s][t] = absorbing_states[t]
    /\ \E a \in actions_, s \in states :
          /\ ~IsFixedState(s) /\ transitions[a][s][s] > 0
          /\ rewards[a][s][s] = baseline_reward

-----------------------------------------------------------------------------
(* Properties of Value Iteration *)

InVI == pc \in {"vi_start", "vi_loop", "vi_sweep", "vi_test"}
VIExited == pc \in {"overwrite", "policy", "pi_init"}

\* the value function the loop reaches from V = 0 with the smallest
\* threshold, and the distance from it that a threshold epsilon allows: a
\* sweep is a gamma-contraction, so a summed change below epsilon leaves V
\* within gamma * epsilon / (1 - gamma) of its fixed point, and rounding to
\* millionths moves the fixed point by at most 1 / (1 - gamma) millionths
ReferenceV ==
    ValueIteration(transitions, rewards, [s \in states |-> 0], gamma, 1,
                   MaxIter)
Tolerance == (gamma * epsilon + 2 * GUnit) \div (GUnit - gamma)

\* C5: for gamma in (0,1) and epsilon > 0, from every initial V that is 0 at
\* the blocked and absorbing states, the Value Iteration loop sets converged
\* and exits after finitely many sweeps: the loop head always has a step to
\* take, and the sweep counter never reaches the MaxIter sweeps the model
\* allows.  The V it exits with is the same value function, within the
\* tolerance epsilon implies, whatever the initial V was.
C5_ConvergesToSameValues ==
    /\ pc = "vi_loop" => ENABLED Next
    /\ (pc = "vi_loop" /\ ~converged) => iterations < MaxIter
    /\ pc = "overwrite" =>
          /\ converged = TRUE
          /\ LET ref == ReferenceV
             IN  \A s \in states : Abs(V[s] - ref[s]) <= Tolerance

\* the loop has exited from an initial V that was not 0 everywhere, after
\* more than one sweep
C5_Witness ==
    /\ pc = "overwrite" /\ converged = TRUE /\ iterations > 1
    /\ gamma \in GammaValues /\ epsilon \in EpsilonValues
    /\ V # ReferenceV

\* C6: the loop exits after a sweep exactly when that sweep's summed
\* absolute change of V is strictly below epsilon, which makes it the first
\* such sweep; every sweep, the converging one included, adds one to
\* iterations, so the count reported at exit is at least 1.
C6_ExitsAtFirstSmallSweep ==
    /\ [][ pc = "vi_test" =>
             /\ converged' =
                  (SumTo([s \in states |-> Abs(V[s] - V_[s])], num_states - 1)
                      < epsilon)
             /\ iterations' = iterations + 1 ]_vars
    /\ [][ pc = "vi_loop" => (pc' = "overwrite" <=> converged) ]_vars
    /\ [][ pc = "vi_start" => (iterations' = 0 /\ converged' = FALSE) ]_vars
    /\ [](pc \in {"vi_sweep", "vi_test"} => converged = FALSE)
    /\ [](pc = "overwrite" =>
            /\ iterations >= 1
            /\ SumTo([s \in states |-> Abs(V[s] - V_[s])], num_states - 1)
                  < epsilon)

\* the loop is back at its head after a sweep that did not pass the test
\* although no single state changed by epsilon or more, and elsewhere it has
\* exited
C6_Witness ==
    /\ pc = "vi_loop" /\ iterations >= 1 /\ converged = FALSE
    /\ \A s \in states : Abs(V[s] - V_[s]) < epsilon
    /\ SumTo([s \in states |-> Abs(V[s] - V_[s])], num_states - 1) >= epsilon

\* the Bellman optimality backup of state s on the current V
BellmanMax(s) ==
    LET Q(a) ==
            Round(SumTo([t \in states |->
                            transitions[a][s][t]
                                * (rewards[a][s][t]
                                      + Round(gamma * V[t], GUnit))],
                        num_states - 1),
                  PUnit)
    IN  CHOOSE m \in {Q(a) : a \in actions_} : \A a \in actions_ : Q(a) <= m

\* C7: from initialisation to the exit of the loop V is 0 at the blocked
\* state and at every absorbing state; a sweep visits exactly the states of
\* states_to_update, each step writes the Bellman optimality backup to the
\* state it visits and to no other entry, and nothing else in the loop
\* writes V.
C7_SweepWritesOnlyUpdatedStates ==
    /\ [](InVI => \A s \in states : IsFixedState(s) => V[s] = 0)
    /\ [](InVI =>
            /\ {states_to_update[k] : k \in 1 .. Len(states_to_update)}
                  = {s \in states : ~IsFixedState(s)}
            /\ Len(states_to_update)
                  = Cardinality({s \in states : ~IsFixedState(s)}))
    /\ [][ pc = "vi_sweep" =>
             LET s == states_to_update[sweep_idx]
             IN  /\ V' = [V EXCEPT ![s] = BellmanMax(s)]
                 /\ sweep_idx' = sweep_idx + 1
                 /\ (pc' = "vi_test" <=> sweep_idx = Len(states_to_update)) ]_vars
    /\ [][ (pc \in {"vi_start", "vi_loop", "vi_test"}) => V' = V ]_vars
    /\ [][ (pc = "vi_loop" /\ pc' = "vi_sweep") => sweep_idx' = 1 ]_vars

\* a sweep is complete: the last state of states_to_update has been written
\* with a value other than its initial one
C7_Witness ==
    /\ pc = "vi_test" /\ sweep_idx = Len(states_to_update) + 1
    /\ V # V_
    /\ \E s \in states : IsFixedState(s) /\ V[s] = 0

\* sum over s' of transitions[a, s, s'] * Vv[s']
ExpectedV(a, s, Vv) ==
    SumTo([t \in states |-> transitions[a][s][t] * Vv[t]], num_states - 1)

\* C8: once the loop has exited, V at each absorbing state is first set to
\* that state's terminal reward, and only then is the policy computed, with
\* policy[s] an action that maximises sum over s' of
\* transitions[a, s, s'] * V[s'] for the overwritten V (no reward term, no
\* discount).
C8_OverwriteThenExtract ==
    /\ [][ pc = "overwrite" =>
             /\ pc' = "policy"
             /\ policy' = policy
             /\ V' = [s \in states |->
                        IF s \in DOMAIN absorbing_states
                        THEN absorbing_states[s] ELSE V[s]] ]_vars
    /\ [](pc = "policy" =>
            /\ converged = TRUE
            /\ \A s \in DOMAIN absorbing_states : V[s] = absorbing_states[s])
    /\ [][ pc = "policy" =>
             /\ V' = V
             /\ \A s \in states :
                  /\ policy'[s] \in actions_
                  /\ \A a \in actions_ :
                       ExpectedV(a, s, V) <= ExpectedV(policy'[s], s, V) ]_vars

\* the policy has been extracted from a V that carries the terminal rewards
C8_Witness ==
    /\ pc = "pi_init"
    /\ \A s \in DOMAIN absorbing_states :
          V[s] = absorbing_states[s] /\ V[s] # 0
    /\ \E s \in states : policy[s] # 0

\* a attains the maximum of ExpectedV(., s, Vv) and no lower index does
FirstMaximiser(a, s, Vv) ==
    \E q \in {[b \in actions_ |-> ExpectedV(b, s, Vv)]} :
        /\ a \in actions_
        /\ \A b \in actions_ : q[b] <= q[a]
        /\ \A b \in actions_ : b < a => q[b] < q[a]

\* the PI loop has called policy_improvement on the current V
Improved == (pc = "pi_sweep" /\ sweep_idx > 1) \/ pc = "pi_test"

\* the argument policy_improvement was last called with, after its overwrite
ImprovedValue ==
    [s \in states |->
        IF s \in DOMAIN absorbing_states THEN absorbing_states[s] ELSE V[s]]

\* C9: when several actions attain the same maximal value of sum over s' of
\* P(s'|s,a)*V(s') for a state, the Value Iteration extraction and
\* policy_improvement both select the lowest action index among them; the
\* blocked state and the absorbing states, whose rows are the same for all
\* four actions, get action index 0 ('L').
C9_TiesTakeLowestIndex ==
    /\ \A s \in states : \A a \in actions_ :
          IsFixedState(s) => transitions[a][s] = transitions[0][s]
    /\ pc = "pi_init" =>
          \A s \in states : FirstMaximiser(policy[s], s, V)
    /\ pc \in {"pi_init", "pi_start", "pi_loop", "pi_sweep", "pi_test",
               "pi_end"} =>
          \A s \in states : IsFixedState(s) => policy[s] = 0
    /\ Improved =>
          \E value \in {ImprovedValue} :
          \A s \in states :
             /\ FirstMaximiser(pi[s], s, value)
             /\ IsFixedState(s) => pi[s] = 0

\* policy_improvement has broken a tie at a state that is updated, and has
\* chosen an action other than 'L' elsewhere
C9_Witness ==
    /\ Improved
    /\ \E s \in states : \E a \in actions_ :
          /\ ~IsFixedState(s)
          /\ a > pi[s]
          /\ ExpectedV(a, s, ImprovedValue) = ExpectedV(pi[s], s, ImprovedValue)
    /\ \E s \in states : pi[s] # 0
    /\ \E s \in states : policy[s] # 0

\* C10: in the 3x4 scenario with gamma = 0.99 and epsilon = 1e-5 the loop
\* exits with V at cell (0,0) within 0.01 of 0.884, and the action extracted
\* for cell (0,0) is 'R', for every initial V.
C10_ConcreteScenario ==
    (VIExited /\ gamma = 99 /\ epsilon = 10) =>
        /\ Abs(V[to_1d(<<0, 0>>)] - 884 * (Unit \div 1000)) <= Unit \div 100
        /\ pc = "pi_init" => ActionAt(policy[to_1d(<<0, 0>>)]) = "R"

\* the scenario has run to the end of the extraction from an initial V that
\* was 0 in the top row
C10_Witness ==
    /\ pc = "pi_init" /\ gamma = 99 /\ epsilon = 10
    /\ grid_size = <<3, 4>> /\ blocked_cell = <<1, 1>>
    /\ baseline_reward = -((2 * Unit) \div 100)
    /\ iterations > 1
    /\ ActionAt(policy[0]) = "R"

-----------------------------------------------------------------------------
(* Properties of Policy Iteration *)

\* the V the Value Iteration loop left on these tensors with this gamma and
\* epsilon, before the extraction cell wrote the terminal rewards into it
ValueIterationV ==
    ValueIteration(transitions, rewards, Unassigned, gamma, epsilon, MaxIter)

\* C11: run on the same tensors with the same gamma, Value Iteration and
\* Policy Iteration end with value functions that agree within 1e-3 at every
\* non-terminal state.
C11_ValuesAgree ==
    pc = "pi_end" =>
        \E vi \in {ValueIterationV} :
        \A s \in states :
            s \notin DOMAIN absorbing_states =>
                Abs(V[s] - vi[s]) <= Unit \div 1000

\* sum over s' of P(s'|s,a) * (R(a,s,s') + gamma * Vv(s'))
ActionValue(a, s, Vv) ==
    Round(SumTo([t \in states |->
                    transitions[a][s][t]
                        * (rewards[a][s][t] + Round(gamma * Vv[t], GUnit))],
                num_states - 1),
          PUnit)

\* C12: every evaluation step of Policy Iteration updates the value of its
\* state s with the action that pi, the policy array Policy Iteration itself
\* maintains, assigns to s at that moment:
\* V(s) = sum over s' of P(s'|s,pi(s)) * (R(pi(s),s,s') + gamma * V(s')).
C12_EvaluatesOwnPolicy ==
    [][ (pc = "pi_sweep") =>
            \E s \in {states_to_update[sweep_idx]} :
                V' = [V EXCEPT ![s] = ActionValue(pi[s], s, V)] ]_vars

\* C13: the Policy Iteration loop exits after an iteration exactly when pi
\* at the end of that iteration equals, at every one of the num_states
\* entries, the copy pi_ taken at the start of the iteration; otherwise it
\* goes through another iteration.
C13_ExitsWhenPolicyUnchanged ==
    /\ [][ (pc = "pi_loop" /\ ~converged) =>
             (pi_' = pi /\ pc' = "pi_sweep") ]_vars
    /\ [][ (pc = "pi_sweep") => pi_' = pi_ ]_vars
    /\ [][ (pc = "pi_test") =>
             /\ converged' = (\A s \in states : pi_[s] = pi[s])
             /\ pi' = pi /\ pi_' = pi_
             /\ pc' = "pi_loop" ]_vars
    /\ [][ (pc = "pi_loop") => (pc' = "pi_end" <=> converged) ]_vars
    /\ [](pc \in {"pi_sweep", "pi_test"} => converged = FALSE)

\* the loop has exited on an unchanged policy after an iteration that had
\* changed it
C13_Witness ==
    /\ pc = "pi_end" /\ converged = TRUE
    /\ iterations >= 2
    /\ pi_ = pi
    /\ \E s \in states : pi[s] # 0

\* C14: for gamma in (0,1), from every initial V that is 0 at the blocked and
\* absorbing states and every initial policy array, the Policy Iteration
\* loop sets converged after finitely many iterations: the loop head always
\* has a step to take, and the iteration counter never reaches the
\* MaxPIIter iterations the model allows.
C14_PolicyIterationTerminates ==
    /\ pc = "pi_loop" => ENABLED NextPI
    /\ (pc = "pi_loop" /\ ~converged) => iterations < MaxPIIter
    /\ pc = "pi_end" => (converged = TRUE /\ iterations >= 1)

\* the loop has exited with gamma = 0.99 after the policy array had changed
\* in several iterations
C14_Witness ==
    /\ pc = "pi_end" /\ converged = TRUE
    /\ gamma = 99
    /\ iterations >= 4

-----------------------------------------------------------------------------
(* Further properties of Value Iteration *)

\* one more pass of the for loop over states_to_update, from the current V
OneMoreSweep == Sweep(transitions, rewards, V, gamma, 1)

\* C15: once the Value Iteration loop has declared convergence, one more
\* Bellman sweep over states_to_update applied to the V the loop left
\* changes the value of every state by less than epsilon.
C15_OneMoreSweepChangesLittle ==
    pc = "overwrite" =>
        \E W \in {OneMoreSweep} :
        \A s \in states : Abs(W[s] - V[s]) < epsilon

\* the loop has exited after several sweeps, and one more sweep still moves
\* some value
C15_Witness ==
    /\ pc = "overwrite" /\ converged = TRUE /\ iterations > 2
    /\ OneMoreSweep # V

\* vi.V for the tensors, gamma and epsilon of the run
ToolboxValues == toolbox_V(transitions, rewards, gamma, epsilon)

-----------------------------------------------------------------------------
(* Properties of the environment tables *)

\* the displacement (rows, columns) that get_new_cell gives move m
Displacement(m) ==
    LET from == to_1d(<<1, 1>>)
        cell == get_new_cell(from, m)
    IN  <<cell[1] - 1, cell[2] - 1>>

Opposite(m, n) ==
    /\ Displacement(m)[1] + Displacement(n)[1] = 0
    /\ Displacement(m)[2] + Displacement(n)[2] = 0

Perpendicular(m, n) ==
    Displacement(m)[1] * Displacement(n)[1]
        + Displacement(m)[2] * Displacement(n)[2] = 0

\* C17: for each of the four intended actions, action_outcomes gives
\* probability 0.8 to the intended direction, 0.1 to each of the two
\* perpendicular directions and 0 to the opposite direction, so that the
\* outcome probabilities of every action sum to 1; this is the table the
\* build loop that has just completed has read.
C17_ActionOutcomes ==
    pc = "vi_init" =>
        /\ DOMAIN action_outcomes = {ActionAt(m) : m \in actions_}
        /\ \A m \in actions_ :
              LET outcomes == action_outcomes[ActionAt(m)]
              IN  /\ DOMAIN outcomes = {ActionAt(n) : n \in actions_}
                  /\ outcomes[ActionAt(m)] = 8
                  /\ \A n \in actions_ :
                        /\ Perpendicular(m, n) => outcomes[ActionAt(n)] = 1
                        /\ Opposite(m, n) => outcomes[ActionAt(n)] = 0
                  /\ Cardinality({n \in actions_ : Perpendicular(m, n)}) = 2
                  /\ Cardinality({n \in actions_ : Opposite(m, n)}) = 1
                  /\ SumTo([n \in actions_ |-> outcomes[ActionAt(n)]],
                           num_actions - 1) = PUnit

\* the build loop has used the table: from cell (2,0) the intended 'U' has
\* put 0.8 on the cell above, 0.1 on the cell to the right, and the opposite
\* 'D' has added nothing
C17_Witness ==
    /\ BuildDone
    /\ \E U \in actions_ :
          /\ ActionAt(U) = "U"
          /\ transitions[U][to_1d(<<2, 0>>)][to_1d(<<1, 0>>)] = 8
          /\ transitions[U][to_1d(<<2, 0>>)][to_1d(<<2, 1>>)] = 1
          /\ transitions[U][to_1d(<<2, 0>>)][to_1d(<<2, 0>>)] = 1

\* every position of the grid
GridPositions == (0 .. (rows - 1)) \X (0 .. (cols - 1))

\* C18: the cell/state mapping is a row-major bijection over all rows*cols
\* grid positions, the blocked and the absorbing cells included:
\* to_1d(to_2d(s)) = s for every state s, to_2d(to_1d(c)) = c for every cell
\* c of the grid, and cell_state and state_cell are inverse of each other.
C18_CellStateBijection ==
    /\ Cardinality(GridPositions) = num_states
    /\ states = 0 .. (num_states - 1)
    /\ \A s \in states : to_2d(s) \in GridPositions /\ to_1d(to_2d(s)) = s
    /\ \A c \in GridPositions : to_1d(c) \in states /\ to_2d(to_1d(c)) = c
    /\ \A c \in GridPositions, d \in GridPositions :
          (c[1] < d[1] \/ (c[1] = d[1] /\ c[2] < d[2])) => to_1d(c) < to_1d(d)
    /\ DOMAIN cell_state = GridPositions /\ DOMAIN state_cell = states
    /\ \A s \in states : cell_state[state_cell[s]] = s /\ state_cell[s] = to_2d(s)
    /\ \A c \in GridPositions : state_cell[cell_state[c]] = c
    /\ blocked_cell \in GridPositions => to_2d(blocked_state) = blocked_cell
    /\ \A c \in DOMAIN absorbing_cells :
          c \in GridPositions =>
              to_1d(c) \in DOMAIN absorbing_states /\ to_2d(to_1d(c)) = c

\* the build loop has gone from a state to its cell, moved, and come back to
\* the state of the new cell: 'D' from cell (0,2) leads to cell (1,2)
C18_Witness ==
    /\ BuildDone
    /\ \E D \in actions_ :
          /\ ActionAt(D) = "D"
          /\ get_new_cell(to_1d(<<0, 2>>), D) = <<1, 2>>
          /\ transitions[D][to_1d(<<0, 2>>)][cell_state[<<1, 2>>]] = 8

-----------------------------------------------------------------------------
(* Properties of configuration handling *)

\* an absorbing cell coincides with the blocked cell
Collision == blocked_cell \in DOMAIN absorbing_cells

\* C19: a configuration in which an absorbing cell coincides with the
\* blocked cell is rejected at model-build time with an error: the build
\* loop never completes and yields tensors for it.
C19_CollisionRejected ==
    Collision => (~BuildDone /\ (build_idx = BuildLen => pc = "error"))

\* C20: when Value Iteration has performed a maximum number of sweeps
\* supplied by the caller without the summed change falling below epsilon,
\* it stops and reports a non-convergence condition: it starts no further
\* sweep, and it does not stay silent.  Stated for every maximum the model
\* can follow.
C20_StopsAtMaximumSweeps ==
    \A max_sweeps \in 1 .. (MaxIter - 1) :
        /\ pc = "vi_sweep" => iterations < max_sweeps
        /\ (pc = "vi_loop" /\ ~converged /\ iterations >= max_sweeps) =>
              error # "none"

-----------------------------------------------------------------------------
(* Further properties of the model build *)

\* the realised outcomes that send state s back to itself: the target cell
\* is outside the grid or is the blocked cell
BouncingOutcomes(s) ==
    {o \in actions_ :
        LET new_cell == get_new_cell(s, o)
        IN  new_cell \notin GridPositions \/ new_cell = blocked_cell}

\* C21: after the build, for every intended action a and every non-blocked
\* non-absorbing state s, transitions[a, s, s] is the sum of
\* action_outcomes[a][o] over the realised outcomes o whose target cell is
\* outside the grid or is the blocked cell: bounces accumulate, a later one
\* never overwrites an earlier one.
C21_BouncesAccumulate ==
    BuildDone =>
        \A s \in states :
            ~IsFixedState(s) =>
                \E bounced \in {BouncingOutcomes(s)} :
                \A a \in actions_ :
                    transitions[a][s][s] =
                        SumTo([o \in actions_ |->
                                  IF o \in bounced
                                  THEN action_outcomes[ActionAt(a)][ActionAt(o)]
                                  ELSE 0],
                              num_actions - 1)

\* the build is complete and a corner state has a self-loop fed by two
\* bounces of positive probability, 0.1 and 0.8
C21_Witness ==
    /\ BuildDone
    /\ \E a \in actions_, s \in states :
          /\ ~IsFixedState(s)
          /\ \E o1 \in BouncingOutcomes(s), o2 \in BouncingOutcomes(s) :
                /\ action_outcomes[ActionAt(a)][ActionAt(o1)] = 1
                /\ action_outcomes[ActionAt(a)][ActionAt(o2)] = 8
          /\ transitions[a][s][s] = 9

-----------------------------------------------------------------------------
(* Further properties of the policy extraction *)

\* the converged V of the Value Iteration loop, recovered after the
\* extraction cell has written the terminal rewards into V: the absorbing
\* states are back at 0
ConvergedV ==
    [s \in states |-> IF s \in DOMAIN absorbing_states THEN 0 ELSE V[s]]

\* argmax over a of sum over s' of P(s'|s,a) * (R(a,s,s') + gamma * Vv(s'))
BellmanGreedy(s, Vv) ==
    np_argmax(q_sa(transitions, rewards, s, Vv, gamma), num_actions - 1)

\* C22: the policy extracted after Value Iteration (argmax of
\* sum P(s'|s,a) * V(s') with the terminal values set to their rewards, no
\* reward term, no discount) selects at every non-terminal non-blocked state
\* the action of the Bellman-greedy rule applied to the converged V with
\* terminal values 0.
C22_ExtractionIsBellmanGreedy ==
    pc = "pi_init" =>
        \E Vv \in {ConvergedV} :
        \A s \in states :
            ~IsFixedState(s) => policy[s] = BellmanGreedy(s, Vv)

-----------------------------------------------------------------------------
(* Ownership of the solvers' arrays *)

\* the policy arrays a Value Iteration run and its extraction leave on the
\* current tensors, one for each discount factor such a run may have used
PreviousPolicies ==
    {GreedyPolicy(transitions,
                  WithTerminalRewards(
                      ValueIteration(transitions, rewards, Unassigned, g, 10,
                                     MaxIter))) : g \in GammaValues}

\* the result of the Policy Iteration loop from the current V and pi when
\* the previous Value Iteration run has left the policy array leftover
PolicyIterationResult(leftover) ==
    PolicyIterationRun(transitions, rewards, V, pi, gamma, leftover,
                       MaxPIIter, 0)

\* C23: the result of a Policy Iteration run (final V, final pi, iteration
\* count) is determined by the tensors, gamma, its own initial V and its own
\* initial pi alone: it is the same whatever policy array a previous Value
\* Iteration run has left behind.
C23_ResultIndependentOfLeftovers ==
    pc = "pi_start" =>
        \E own \in {PolicyIterationResult(policy)} :
        \A leftover \in PreviousPolicies :
            \E other \in {PolicyIterationResult(leftover)} :
                /\ other.V = own.V
                /\ other.pi = own.pi
                /\ other.iterations = own.iterations

InPolicyIteration ==
    pc \in {"pi_start", "pi_loop", "pi_sweep", "pi_test", "pi_end"}

\* C24: policy_improvement sets the absorbing states' values on the copy it
\* is given only: throughout the Policy Iteration run, after its exit
\* included, the solver's V is 0 at the blocked state and at every absorbing
\* state, and a step of the sweep leaves V as the evaluation assignment made
\* it: the improvement call changes no entry.
C24_ImprovementWritesCopyOnly ==
    /\ [](InPolicyIteration =>
            \A s \in states : IsFixedState(s) => V[s] = 0)
    /\ [][ (pc = "pi_sweep") =>
             \E s \in {states_to_update[sweep_idx]} :
                 /\ \A t \in states : t # s => V'[t] = V[t]
                 /\ V'[s] = ActionValue(policy[s], s, V) ]_vars
    /\ [][ (pc \in {"pi_start", "pi_loop", "pi_test"}) => V' = V ]_vars

\* the loop has exited: the improvement has valued the move into the +1
\* absorbing state by its terminal reward ('R' at cell (0,2)), and V is
\* still 0 there
C24_Witness ==
    /\ pc = "pi_end" /\ iterations >= 2
    /\ \A s \in DOMAIN absorbing_states :
          absorbing_states[s] # 0 /\ V[s] = 0
    /\ ActionAt(pi[to_1d(<<0, 2>>)]) = "R"
    /\ V[to_1d(<<0, 2>>)] > 0

-----------------------------------------------------------------------------
(* The tensors after the build *)

\* C25: once the build loop has finished, the transitions and rewards
\* tensors are never written again: the Value Iteration sweeps, the policy
\* extraction, policy_improvement and the Policy Iteration loop leave every
\* entry of both unchanged, while V and the policy arrays are mutated.
C25_TensorsFrozenAfterBuild ==
    [][ BuildDone =>
            \A a \in actions_, s \in states, t \in states :
                /\ transitions'[a][s][t] = transitions[a][s][t]
                /\ rewards'[a][s][t] = rewards[a][s][t] ]_vars

\* both solvers have run on the built tensors: Value Iteration has left its
\* policy array, Policy Iteration has exited with V and pi of its own, and a
\* row of the tensor still is the distribution the build gave it
C25_Witness ==
    /\ pc = "pi_end" /\ iterations >= 2
    /\ \E s \in states : policy[s] # 0
    /\ \E s \in states : pi[s] # policy[s]
    /\ \E s \in states : V[s] # 0
    /\ transitions[0][0][0] = 9 /\ transitions[0][0][4] = 1
    /\ rewards[0][0][4] = baseline_reward

-----------------------------------------------------------------------------
(* Value Iteration under parameters that are not validated *)

\* the loop has not set converged and has not been left
LoopStillRunning ==
    /\ converged = FALSE
    /\ pc \in {"vi_start", "vi_loop", "vi_sweep", "vi_test"}

\* C26, as stated: if gamma >= 1 (with epsilon > 0) or if epsilon <= 0 (with
\* any gamma), the Value Iteration loop on the GridWorld tensors never sets
\* converged and never terminates.
C26_NeverConvergesAsStated ==
    ((gamma >= GUnit /\ epsilon > 0) \/ epsilon <= 0) => LoopStillRunning

\* C26: if epsilon <= 0, with any gamma, the Value Iteration loop on the
\* GridWorld tensors never sets converged and never terminates: the summed
\* change is never below epsilon, not even when a sweep changes nothing, and
\* the loop head starts another sweep as long as the model follows it.
C26_NeverConvergesForNonPositiveEpsilon ==
    epsilon <= 0 =>
        /\ LoopStillRunning
        /\ (pc = "vi_loop" /\ iterations < MaxIter) => ENABLED VILoop
        /\ pc = "vi_test" => ~(L1Change(V, V_) < epsilon)

\* with epsilon = 0 the loop is at its head again after a sweep that changed
\* no entry of V, and it has not converged
C26_Witness ==
    /\ pc = "vi_loop" /\ epsilon = 0 /\ iterations > 2
    /\ V = V_ /\ \E s \in states : V[s] # 0
    /\ converged = FALSE

-----------------------------------------------------------------------------
(* The blocked state *)

\* C27: after the build, no transition with positive probability enters the
\* blocked state from any other state: transitions[a, s, blocked_state] = 0
\* for every action a and every state s other than the blocked state,
\* whichever cell is the blocked one.
C27_BlockedStateUnreachable ==
    BuildDone =>
        \E blocked \in {blocked_state} :
        \A a \in actions_, s \in states :
            s # blocked => transitions[a][s][blocked] = 0

\* the build is complete for blocked cell (1,1): 'R' from cell (1,0) has
\* bounced off it, 0.8 on the self-loop and nothing on the blocked state
C27_Witness ==
    /\ BuildDone /\ blocked_cell = <<1, 1>>
    /\ \E R \in actions_ :
          /\ ActionAt(R) = "R"
          /\ get_new_cell(to_1d(<<1, 0>>), R) = blocked_cell
          /\ transitions[R][to_1d(<<1, 0>>)][to_1d(<<1, 0>>)] = 8
          /\ transitions[R][to_1d(<<1, 0>>)][blocked_state] = 0

-----------------------------------------------------------------------------
(* The order of the backups within a sweep *)

\* the Bellman optimality backup of state s computed from the vector Vv
BackupValue(s, Vv) ==
    np_max(q_sa(transitions, rewards, s, Vv, gamma), num_actions - 1)

\* what the backup of state s reads by the claim: this sweep's values at the
\* lower-indexed states, the previous sweep's values, held in the copy V_,
\* at s and at the higher-indexed states
ValuesRead(s) == [t \in states |-> IF t < s THEN V[t] ELSE V_[t]]

\* C28: within one Value Iteration sweep the states of states_to_update are
\* backed up in ascending state index and V is updated in place: the backup
\* of state s reads the values written earlier in the same sweep for the
\* lower-indexed states and the previous sweep's values for the
\* higher-indexed ones; the convergence test compares the V at the end of the
\* sweep with the copy taken before the sweep started.
C28_InPlaceAscendingSweep ==
    /\ [][ (pc = "vi_loop" /\ ~converged) => (V_' = V /\ V' = V) ]_vars
    /\ [][ (pc = "vi_sweep") =>
             \E s \in {states_to_update[sweep_idx]} :
                 /\ \A k \in 1 .. (sweep_idx - 1) : states_to_update[k] < s
                 /\ \A k \in (sweep_idx + 1) .. Len(states_to_update) :
                        s < states_to_update[k]
                 /\ V' = [V EXCEPT ![s] = BackupValue(s, ValuesRead(s))]
                 /\ V_' = V_ ]_vars
    /\ [][ (pc = "vi_test") =>
             /\ V' = V /\ V_' = V_
             /\ converged' = (L1Change(V, V_) < epsilon) ]_vars

\* the loop is in the middle of a later sweep: a lower-indexed state has been
\* rewritten in this sweep, the higher-indexed ones still hold the previous
\* sweep's values, and the backup about to be made differs from the one the
\* start-of-sweep copy would give
C28_Witness ==
    /\ pc = "vi_sweep" /\ iterations >= 1
    /\ sweep_idx > 1 /\ sweep_idx < Len(states_to_update)
    /\ \E s \in {states_to_update[sweep_idx]} :
          /\ \E t \in states : t < s /\ V[t] # V_[t]
          /\ \A t \in states : t >= s => V[t] = V_[t]
          /\ BackupValue(s, V) # BackupValue(s, V_)

-----------------------------------------------------------------------------
(* The policy array within a Policy Iteration iteration *)

\* C29: at the end of every Policy Iteration iteration pi is
\* policy_improvement of the V at the end of that iteration's sweep: greedy,
\* first maximiser, for that V with the absorbing values set to their
\* rewards.  Neither the improvement calls made inside the sweep nor the
\* initial random pi have an effect on a V update: a step of the sweep
\* computes V from V and the array policy, and replaces pi as a whole by the
\* greedy array of the V it has just computed, so that the pi a step finds
\* is not read; the initial pi is only copied to pi_ at the first loop head,
\* for the first convergence comparison.
C29_PiIsGreedyAtEndOfSweep ==
    /\ [](pc = "pi_test" =>
            \E value \in {WithTerminalRewards(V)} :
            \A s \in states : FirstMaximiser(pi[s], s, value))
    /\ [][ (pc = "pi_sweep") =>
             \E s \in {states_to_update[sweep_idx]} :
                 /\ V' = [V EXCEPT ![s] = ActionValue(policy[s], s, V)]
                 /\ \E value \in {WithTerminalRewards(V')} :
                    \A u \in states : FirstMaximiser(pi'[u], u, value)
                 /\ pi_' = pi_ ]_vars
    /\ [](pc = "pi_start" => (pi \in InitialPis /\ pi_ = Unassigned))
    /\ [][ (pc = "pi_loop" /\ ~converged) =>
             (pi_' = pi /\ pi' = pi /\ V' = V) ]_vars
    /\ [][ (pc \in {"pi_start", "pi_test"}) => (pi' = pi /\ V' = V) ]_vars

\* an iteration other than the first is at its comparison: the sweep has
\* changed pi, which is neither the copy pi_ nor the array policy
C29_Witness ==
    /\ pc = "pi_test" /\ iterations >= 1
    /\ pi # pi_ /\ pi # policy
    /\ \A s \in states : FirstMaximiser(pi[s], s, WithTerminalRewards(V))

-----------------------------------------------------------------------------
(* Skipping the blocked and absorbing states *)

\* a sweep that backs up every state, the skipped ones included, in
\* ascending order from state s on
RECURSIVE SweepAllStates(_, _)
SweepAllStates(Vv, s) ==
    IF s = num_states THEN Vv
    ELSE CHOOSE W \in
            {SweepAllStates(B, s + 1) :
                B \in {Backup(transitions, rewards, s, Vv, gamma)}} : TRUE

\* C30: skipping the blocked and absorbing states in the Value Iteration
\* sweep is equivalent to backing them up: with V at 0 there, the Bellman
\* optimality backup applied to any of them yields 0 (their own rows are a
\* self-loop of probability 1 with reward 0), so a sweep over all the states
\* yields the same V as the sweep over states_to_update.
C30_SkippingEqualsBackingUp ==
    (pc = "vi_loop" /\ ~converged) =>
        /\ \A s \in states : IsFixedState(s) => V[s] = 0
        /\ \A s \in states : IsFixedState(s) => BackupValue(s, V) = 0
        /\ SweepAllStates(V, 0) = Sweep(transitions, rewards, V, gamma, 1)

\* the loop is at its head between two sweeps: the absorbing states carry
\* terminal rewards in state_rewards but none in their own rows, and the
\* next sweep changes V
C30_Witness ==
    /\ pc = "vi_loop" /\ ~converged /\ iterations >= 1
    /\ \A s \in DOMAIN absorbing_states :
          /\ state_rewards[s] # 0
          /\ \A a \in actions_ :
                rewards[a][s][s] = 0 /\ transitions[a][s][s] = PUnit
    /\ SweepAllStates(V, 0) # V

=============================================================================
